---- MODULE Spec2Model ----
(***************************************************************************)
(* Model of src/inventory_alert.py: the inventory alert pipeline.          *)
(*                                                                         *)
(*   get_inventory_data             pages through the remote API           *)
(*   flatten_process_inventory_data explodes the nested inventory lines    *)
(*   main                           pre-filters, classifies, filters       *)
(*   generate_inventory_alerts      the alert classifier                   *)
(*   send_email_notification        site filter, sort, CSV archive, SMTP   *)
(*                                                                         *)
(* The remote API, the CSV archive and the SMTP server are the environment.*)
(* The API is the variable server, fixed when the run starts: the response *)
(* the API gives to each page number.  The outcome of the file writes and  *)
(* of the SMTP send is chosen when the call is made.                       *)
(***************************************************************************)
EXTENDS Integers, Sequences, FiniteSets, TLC

VARIABLES
    server,          \* the remote API: page number -> response
    pc,              \* where the run is
    page,            \* get_inventory_data: page
    all_data,        \* get_inventory_data: all_data
    requests,        \* page numbers of the requests.get calls made, in order
    snapshot,        \* whether the raw JSON snapshot file was written
    merged_data,     \* main: merged_data (rows of the frame)
    line_cols,       \* whether the frame carries the inventory-line columns
    alerts_df,       \* main: alerts_df, then filtered_alerts
    report,          \* send_email_notification: filtered_df after the sort
    csv,             \* the dated report CSV in the archive (NoFile if none)
    mail,            \* outcome of the SMTP send
    stages,          \* the stages that have run, in order
    error            \* the uncaught exception that ended the run, if any

vars == <<server, pc, page, all_data, requests, snapshot, merged_data,
          line_cols, alerts_df, report, csv, mail, stages, error>>

----------------------------------------------------------------------------
(* Bounds of the model. *)

\* pages the remote API holds at most (later pages are empty)
MaxPages == 2
\* parent records of a page in the flattening scenarios
MaxRecords == 2
\* inventory lines of one parent record in the flattening scenarios
MaxLines == 2
\* largest quantity of an inventory line
MaxQty == 2
\* largest par level / critical level of an inventory line
MaxLevel == 3

----------------------------------------------------------------------------
(* Program constants. *)

\* get_inventory_data: per_page = 25
per_page == 25

\* a missing / not-a-number cell of a frame (what pd.notna tells apart)
NaN == -999

URGENT == "URGENT: Critically Low Stock!"
WARNING == "Warning: Stock is Low"
STOCK_OK == "Stock OK"

TargetSite == "Sheffield Parts Co. - TERP"
OtherSite == "Other Site"
\* what fillna(0) leaves in the store.title cell of a parent without lines
FilledSite == "0"

ProcurementPending == "Procurement Pending"
PartType == "Part"

\* the CSV archive before the report is written
NoFile == [written |-> FALSE, rows |-> <<>>]

----------------------------------------------------------------------------
(* Sequences. *)

RECURSIVE Concat(_)
Concat(ss) == IF ss = <<>> THEN <<>> ELSE Head(ss) \o Concat(Tail(ss))

SeqsUpTo(S, n) == UNION {[1..k -> S] : k \in 0..n}


Indices(s) == 1..Len(s)

----------------------------------------------------------------------------
(* The remote API. *)

\* the ways a page request fails: requests.get raises, raise_for_status
\* raises on a non-2xx status, response.json raises on a malformed body
FailureKinds == {"request_error", "http_error", "json_error"}

\* a body that parses and carries the data field / one that lacks the field
DataPage(recs) == [kind |-> "data", data |-> recs]
NoDataField == [kind |-> "no_data_key", data |-> <<>>]
Failure(kind) == [kind |-> kind, data |-> <<>>]

\* the response to requests.get(url, params = {page, per_page}); the API
\* answers a page past its last one with an empty data list
Respond(p) == IF p \in Indices(server) THEN server[p] ELSE DataPage(<<>>)

----------------------------------------------------------------------------
(* get_inventory_data: the pagination loop. *)

\* one iteration of the while loop, from the response on: the new all_data,
\* the new page and whether the loop is left (break)
fetch_iteration_retry(resp, data, pg) ==
    IF resp.kind \in FailureKinds
    THEN [all_data |-> data, page |-> pg, stop |-> FALSE]
    ELSE IF resp.kind = "no_data_key" \/ resp.data = <<>>
    THEN [all_data |-> data, page |-> pg, stop |-> TRUE]
    ELSE IF Len(resp.data) < per_page
    THEN [all_data |-> data \o resp.data, page |-> pg, stop |-> TRUE]
    ELSE [all_data |-> data \o resp.data, page |-> pg + 1, stop |-> FALSE]

fetch_iteration_no_short_stop(resp, data, pg) ==
    IF resp.kind \in FailureKinds
    THEN [all_data |-> data, page |-> pg, stop |-> TRUE]
    ELSE IF resp.kind = "no_data_key" \/ resp.data = <<>>
    THEN [all_data |-> data, page |-> pg, stop |-> TRUE]
    ELSE [all_data |-> data \o resp.data, page |-> pg + 1, stop |-> FALSE]

fetch_iteration(resp, data, pg) ==
    IF resp.kind \in FailureKinds
    THEN \* except ...: logging.info(...); break
         [all_data |-> data, page |-> pg, stop |-> TRUE]
    ELSE IF resp.kind = "no_data_key" \/ resp.data = <<>>
    THEN \* if 'data' not in data or not data['data']: break
         [all_data |-> data, page |-> pg, stop |-> TRUE]
    ELSE IF Len(resp.data) < per_page
    THEN \* all_data.extend(data['data']); short page: break
         [all_data |-> data \o resp.data, page |-> pg, stop |-> TRUE]
    ELSE \* all_data.extend(data['data']); page += 1
         [all_data |-> data \o resp.data, page |-> pg + 1, stop |-> FALSE]

\* while True: one request and what the loop body does with the response.
\* The loop makes at most one request past the API's last page; the guard on
\* requests states that cap.
FetchPage ==
    /\ pc = "fetch"
    /\ Len(requests) <= MaxPages + 1
    /\ LET it == fetch_iteration(Respond(page), all_data, page)
       IN  /\ requests' = Append(requests, page)
           /\ all_data' = it.all_data
           /\ page' = it.page
           /\ pc' = IF it.stop THEN "fetched" ELSE "fetch"
    /\ UNCHANGED <<server, snapshot, merged_data, line_cols, alerts_df,
                   report, csv, mail, stages, error>>

\* if not all_data: exit()
no_data_never(data) == FALSE

no_data(data) == data = <<>>

\* after the loop: exit on no data; else the best-effort JSON snapshot and
\* json_normalize (the frame is all_data with unique_id = position)
FinishFetch ==
    /\ pc = "fetched"
    /\ IF no_data(all_data)
       THEN /\ pc' = "exited"
            /\ UNCHANGED snapshot
       ELSE /\ pc' = "flatten"
            /\ \E ok \in BOOLEAN : snapshot' = ok
    /\ UNCHANGED <<server, page, all_data, requests, merged_data, line_cols,
                   alerts_df, report, csv, mail, stages, error>>

----------------------------------------------------------------------------
(* flatten_process_inventory_data. *)

\* A raw record is [id, type, inventories]; its inventories field is
\* [shape, lines]: shape "list" (a JSON array of inventory lines), "scalar"
\* (a value that is no list: null, a string, a number), "dict" (a JSON
\* object, which json_normalize spreads over columns inventories.<key>) or
\* "absent" (the record has no such field).
ListOf(lines) == [shape |-> "list", lines |-> lines]
NotList(shape) == [shape |-> shape, lines |-> <<>>]

\* json_normalize gives the frame an inventories column when some record
\* carries the field with a value that is not a JSON object
has_inventories_column(data) ==
    \E i \in Indices(data) : data[i].inventories.shape \in {"list", "scalar"}

\* lambda x: x if isinstance(x, list) else []
as_list(inv) == IF inv.shape = "list" THEN inv.lines ELSE <<>>

\* number of inventory lines of a record, as the flattening counts them
line_count(rec) == Len(as_list(rec.inventories))

\* pd.to_numeric(errors="coerce").fillna(0)
to_numeric(v) == IF v = NaN THEN 0 ELSE v

\* one row of the merge for a parent matched with an inventory line, after
\* the projection and the numeric coercion
matched_row(data, i, line) ==
    [unique_id |-> i - 1, id |-> data[i].id, type |-> data[i].type,
     site |-> line.site,
     quantity |-> to_numeric(line.quantity),
     par_level |-> to_numeric(line.par_level),
     critical_level |-> to_numeric(line.critical_level)]

\* the row of a parent that matches no line: the line columns are missing
\* and fillna(0) fills them
unmatched_row(data, i) ==
    [unique_id |-> i - 1, id |-> data[i].id, type |-> data[i].type,
     site |-> FilledSite, quantity |-> 0, par_level |-> 0,
     critical_level |-> 0]

\* the rows the merge gives for parent i
merge_inner_rows(data, i) ==
    LET lines == as_list(data[i].inventories)
    IN  [j \in Indices(lines) |-> matched_row(data, i, lines[j])]

\* pd.merge(parents, inventories_df, on="unique_id", how="left")
merge_rows(data, i) ==
    LET lines == as_list(data[i].inventories)
    IN  IF lines = <<>>
        THEN <<unmatched_row(data, i)>>
        ELSE [j \in Indices(lines) |-> matched_row(data, i, lines[j])]

\* the frame without the inventories column, when no line was flattened
parent_row(data, i) ==
    [unique_id |-> i - 1, id |-> data[i].id, type |-> data[i].type]

\* flattened_inventories is empty: no record has a line
no_inventories(data) == \A i \in Indices(data) : line_count(data[i]) = 0

flatten_rows(data) ==
    IF no_inventories(data)
    THEN [i \in Indices(data) |-> parent_row(data, i)]
    ELSE Concat([i \in Indices(data) |-> merge_rows(data, i)])

\* inventory_df["inventories"] raises KeyError when the column is missing
FlattenProcess ==
    /\ pc = "flatten"
    /\ stages' = Append(stages, "flatten")
    /\ IF ~has_inventories_column(all_data)
       THEN /\ pc' = "crashed"
            /\ error' = "KeyError: inventories"
            /\ UNCHANGED <<merged_data, line_cols>>
       ELSE /\ pc' = "prefilter"
            /\ merged_data' = flatten_rows(all_data)
            /\ line_cols' = ~no_inventories(all_data)
            /\ UNCHANGED error
    /\ UNCHANGED <<server, page, all_data, requests, snapshot, alerts_df,
                   report, csv, mail>>

----------------------------------------------------------------------------
(* main: the pre-filter ("Bobs additions"). *)

prefilter_keeps_unless_both_zero(row) ==
    /\ row.type # ProcurementPending
    /\ ~(row.par_level = 0 /\ row.critical_level = 0)

\* merged_data[type != "Procurement Pending"][par_level != 0][critical_level != 0]
prefilter_keeps(row) ==
    /\ row.type # ProcurementPending
    /\ row.par_level # 0
    /\ row.critical_level # 0

\* merged_data["par_level"] raises KeyError when no line was flattened
PreFilter ==
    /\ pc = "prefilter"
    /\ IF ~line_cols
       THEN /\ pc' = "crashed"
            /\ error' = "KeyError: par_level"
            /\ UNCHANGED merged_data
       ELSE /\ pc' = "classify"
            /\ merged_data' = SelectSeq(merged_data, prefilter_keeps)
            /\ UNCHANGED error
    /\ UNCHANGED <<server, page, all_data, requests, snapshot, line_cols,
                   alerts_df, report, csv, mail, stages>>

----------------------------------------------------------------------------
(* generate_inventory_alerts. *)

\* pd.notna
notna(v) == v # NaN

alert_logic_par_first(quantity_, par_level_, critical_level_) ==
    LET quantity == IF notna(quantity_) THEN quantity_ ELSE 0
        par_level == IF notna(par_level_) THEN par_level_ ELSE 0
        critical_level == IF notna(critical_level_) THEN critical_level_ ELSE 0
    IN  IF quantity < par_level /\ quantity >= critical_level THEN WARNING
        ELSE IF quantity <= critical_level THEN URGENT
        ELSE STOCK_OK

alert_logic(quantity_, par_level_, critical_level_) ==
    LET quantity == IF notna(quantity_) THEN quantity_ ELSE 0
        par_level == IF notna(par_level_) THEN par_level_ ELSE 0
        critical_level == IF notna(critical_level_) THEN critical_level_ ELSE 0
    IN  IF quantity <= critical_level THEN URGENT
        ELSE IF quantity < par_level THEN WARNING
        ELSE STOCK_OK

\* the row with its alert column
alerted(row) ==
    [unique_id |-> row.unique_id, id |-> row.id, type |-> row.type,
     site |-> row.site, quantity |-> row.quantity,
     par_level |-> row.par_level, critical_level |-> row.critical_level,
     alert |-> alert_logic(row.quantity, row.par_level, row.critical_level)]

\* df.apply(alert_logic, axis=1) on a frame without rows gives, depending on
\* the pandas version, an empty column or a frame that the assignment to
\* df['alert'] rejects
EmptyApplyOutcomes == {"empty_column", "ValueError: alert"}

\* raises ValueError when a required column is missing; else adds the alert
\* column row by row
GenerateInventoryAlerts ==
    /\ pc = "classify"
    /\ stages' = Append(stages, "classify")
    /\ IF ~line_cols
       THEN /\ pc' = "crashed"
            /\ error' = "ValueError: Missing required columns"
            /\ UNCHANGED alerts_df
       ELSE IF merged_data = <<>>
       THEN \E out \in EmptyApplyOutcomes :
                /\ pc' = IF out = "empty_column" THEN "filter" ELSE "crashed"
                /\ error' = IF out = "empty_column" THEN error ELSE out
                /\ alerts_df' = <<>>
       ELSE /\ pc' = "filter"
            /\ alerts_df' = [i \in Indices(merged_data) |-> alerted(merged_data[i])]
            /\ UNCHANGED error
    /\ UNCHANGED <<server, page, all_data, requests, snapshot, merged_data,
                   line_cols, report, csv, mail>>

----------------------------------------------------------------------------
(* main: the alert filter. *)

\* alerts_df["alert"].isin([URGENT, WARNING])
alert_filter(row) == row.alert \in {URGENT, WARNING}

\* filtered_alerts; send_email_notification is called unless it is empty
FilterAlerts ==
    /\ pc = "filter"
    /\ alerts_df' = SelectSeq(alerts_df, alert_filter)
    /\ pc' = IF alerts_df' # <<>> THEN "email" ELSE "done"
    /\ UNCHANGED <<server, page, all_data, requests, snapshot, merged_data,
                   line_cols, report, csv, mail, stages, error>>

----------------------------------------------------------------------------
(* send_email_notification. *)

\* filtered_df["store.title"] == "Sheffield Parts Co. - TERP"
site_filter(row) == row.site = TargetSite

\* Python orders the alert labels as strings; they differ in their first
\* character, whose code point decides: 'S' < 'U' < 'W'
label_ord(label) ==
    CASE label = STOCK_OK -> 83
      [] label = URGENT -> 85
      [] label = WARNING -> 87

sorts_before_label_ascending(a, b) ==
    \/ a.quantity < b.quantity
    \/ a.quantity = b.quantity /\ label_ord(a.alert) < label_ord(b.alert)

\* sort_values(by=["Quantity", "Alert"], ascending=[True, False]): a goes
\* strictly before b
sorts_before(a, b) ==
    \/ a.quantity < b.quantity
    \/ a.quantity = b.quantity /\ label_ord(a.alert) > label_ord(b.alert)

\* sort_values on several keys is a stable sort: rows with equal keys keep
\* their order
RECURSIVE insert_sorted(_, _)
insert_sorted(row, sorted) ==
    IF sorted = <<>> THEN <<row>>
    ELSE IF sorts_before(row, Head(sorted)) THEN <<row>> \o sorted
    ELSE <<Head(sorted)>> \o insert_sorted(row, Tail(sorted))

RECURSIVE sort_values(_)
sort_values(rows) ==
    IF rows = <<>> THEN <<>>
    ELSE insert_sorted(rows[Len(rows)], sort_values(SubSeq(rows, 1, Len(rows) - 1)))

report_is_empty_never(rows) == FALSE

\* if filtered_df.empty: return
report_is_empty(rows) == rows = <<>>

\* the site filter, the renaming, the sort and the emptiness check
BuildReport ==
    /\ pc = "email"
    /\ report' = sort_values(SelectSeq(alerts_df, site_filter))
    /\ pc' = IF report_is_empty(report') THEN "done" ELSE "csv"
    /\ UNCHANGED <<server, page, all_data, requests, snapshot, merged_data,
                   line_cols, alerts_df, csv, mail, stages, error>>

\* new_files_df.to_csv(csv_attachment_path): the write is not guarded, a
\* failure of it ends the run
WriteCsv ==
    /\ pc = "csv"
    /\ \E ok \in BOOLEAN :
        IF ok
        THEN /\ csv' = [written |-> TRUE, rows |-> report]
             /\ stages' = Append(stages, "csv")
             /\ pc' = "smtp"
             /\ UNCHANGED error
        ELSE /\ pc' = "crashed"
             /\ error' = "OSError: to_csv"
             /\ UNCHANGED <<csv, stages>>
    /\ UNCHANGED <<server, page, all_data, requests, snapshot, merged_data,
                   line_cols, alerts_df, report, mail>>

after_send_unguarded(ok) == IF ok THEN "done" ELSE "crashed"

\* try: smtpObj.sendmail(...) except Exception: logging.info(...)
after_send(ok) == "done"

SendMail ==
    /\ pc = "smtp"
    /\ stages' = Append(stages, "send")
    /\ \E ok \in BOOLEAN :
        /\ mail' = IF ok THEN "sent" ELSE "failed"
        /\ pc' = after_send(ok)
    /\ UNCHANGED <<server, page, all_data, requests, snapshot, merged_data,
                   line_cols, alerts_df, report, csv, error>>

----------------------------------------------------------------------------
(* The run. *)

Next ==
    \/ FetchPage
    \/ FinishFetch
    \/ FlattenProcess
    \/ PreFilter
    \/ GenerateInventoryAlerts
    \/ FilterAlerts
    \/ BuildReport
    \/ WriteCsv
    \/ SendMail

\* the state when main is entered, for a given remote API
Start(api) ==
    /\ server = api
    /\ pc = "fetch"
    /\ page = 1
    /\ all_data = <<>>
    /\ requests = <<>>
    /\ snapshot = FALSE
    /\ merged_data = <<>>
    /\ line_cols = FALSE
    /\ alerts_df = <<>>
    /\ report = <<>>
    /\ csv = NoFile
    /\ mail = "none"
    /\ stages = <<>>
    /\ error = "none"

----------------------------------------------------------------------------
(* Remote APIs of the pagination runs: up to MaxPages pages, each a failure,
   a body without the data field, or 0..per_page records; all records of one
   API carry the same inventories field. *)

AlertLine ==
    [site |-> TargetSite, quantity |-> 1, par_level |-> 2, critical_level |-> 1]

UnreadableLine ==
    [site |-> OtherSite, quantity |-> NaN, par_level |-> 2, critical_level |-> NaN]

PageShapes ==
    {[kind |-> k, n |-> 0] : k \in FailureKinds \cup {"no_data_key"}}
    \cup {[kind |-> "data", n |-> n] : n \in 0..per_page}

PagedInventories == {NotList("absent"), ListOf(<<>>), ListOf(<<AlertLine>>)}

PageOf(p, shape, inv) ==
    IF shape.kind = "data"
    THEN DataPage([i \in 1..shape.n |->
                    [id |-> (p - 1) * per_page + i, type |-> PartType,
                     inventories |-> inv]])
    ELSE IF shape.kind = "no_data_key" THEN NoDataField
    ELSE Failure(shape.kind)

Init ==
    \E n \in 1..MaxPages : \E shapes \in [1..n -> PageShapes] :
        \E inv \in PagedInventories :
            Start([p \in 1..n |-> PageOf(p, shapes[p], inv)])

Spec == Init /\ [][Next]_vars

----------------------------------------------------------------------------
(* Remote APIs of the flattening runs: one short page of up to MaxRecords
   records, each with any shape of the inventories field and up to MaxLines
   lines. *)

FlattenLines == {AlertLine, UnreadableLine}

FlattenInventories ==
    {NotList("absent"), NotList("scalar"), NotList("dict")}
    \cup {ListOf(ls) : ls \in SeqsUpTo(FlattenLines, MaxLines)}

InitFlatten ==
    \E n \in 0..MaxRecords : \E invs \in [1..n -> FlattenInventories] :
        Start(<<DataPage([i \in 1..n |->
                  [id |-> i, type |-> PartType, inventories |-> invs[i]]])>>)

SpecFlatten == InitFlatten /\ [][Next]_vars

----------------------------------------------------------------------------
(* Remote APIs of the report runs: one record with a pair of inventory
   lines, of any site, quantity and thresholds. *)

ReportLines ==
    [site : {TargetSite, OtherSite}, quantity : 0..MaxQty,
     par_level : 0..MaxLevel, critical_level : 0..MaxLevel]

InitReport ==
    \E type \in {PartType, ProcurementPending} : \E l1, l2 \in ReportLines :
        Start(<<DataPage(<<[id |-> 1, type |-> type,
                           inventories |-> ListOf(<<l1, l2>>)]>>)>>)

SpecReport == InitReport /\ [][Next]_vars

----------------------------------------------------------------------------
(* Direct calls of generate_inventory_alerts on a frame of one row, with
   any numbers or missing values in the three columns, or without them. *)

ClassifyValues == (-1..MaxLevel) \cup {NaN}

InitClassify ==
    /\ server = <<>>
    /\ pc = "classify"
    /\ page = 1
    /\ all_data = <<>>
    /\ requests = <<>>
    /\ snapshot = FALSE
    /\ \/ /\ line_cols = TRUE
          /\ \E q, p, c \in ClassifyValues :
                merged_data = <<[unique_id |-> 0, id |-> 1, type |-> PartType,
                                 site |-> TargetSite, quantity |-> q,
                                 par_level |-> p, critical_level |-> c]>>
       \/ /\ line_cols = FALSE
          /\ merged_data = <<[unique_id |-> 0, id |-> 1, type |-> PartType]>>
    /\ alerts_df = <<>>
    /\ report = <<>>
    /\ csv = NoFile
    /\ mail = "none"
    /\ stages = <<>>
    /\ error = "none"

NextClassify == GenerateInventoryAlerts

SpecClassify == InitClassify /\ [][NextClassify]_vars

----------------------------------------------------------------------------
(* Properties. *)

Range(s) == {s[i] : i \in Indices(s)}

Last(s) == s[Len(s)]

\* the records a page holds
PageData(p) == IF Respond(p).kind = "data" THEN Respond(p).data ELSE <<>>

\* the page ends the data: it is empty, lacks the data field or is short
EndsData(p) ==
    \/ Respond(p).kind = "no_data_key"
    \/ Respond(p).kind = "data" /\ Len(Respond(p).data) < per_page

PageFailed(p) == Respond(p).kind \in FailureKinds

\* the records of pages 1..k, in page order
RecordsUpTo(k) == Concat([p \in 1..k |-> PageData(p)])

\* C1: for every triple of numbers the classifier returns exactly one of the
\* three categories: URGENT iff quantity <= critical_level, otherwise
\* Warning iff quantity < par_level, otherwise Stock OK; with quantity =
\* critical_level = par_level the result is URGENT.
C1_ClassifierTotalOrdered ==
    (pc = "filter" /\ line_cols /\ alerts_df # <<>>) =>
        LET q == merged_data[1].quantity
            p == merged_data[1].par_level
            c == merged_data[1].critical_level
            a == alerts_df[1].alert
        IN  (q # NaN /\ p # NaN /\ c # NaN) =>
                /\ a \in {URGENT, WARNING, STOCK_OK}
                /\ (a = URGENT) <=> (q <= c)
                /\ (a = WARNING) <=> (q > c /\ q < p)
                /\ (a = STOCK_OK) <=> (q > c /\ q >= p)
                /\ (q = c /\ c = p) => a = URGENT

C1_Witness ==
    /\ pc = "filter" /\ line_cols /\ alerts_df # <<>>
    /\ merged_data[1].quantity = 2
    /\ merged_data[1].par_level = 2
    /\ merged_data[1].critical_level = 2
    /\ alerts_df[1].alert = URGENT

\* C2: when no page request fails, the pages requested are 1, 2, 3, ... one
\* at a time, the loop stops at the first page k that is empty, lacks the
\* data field or is short, no page after k is requested, and all_data is
\* exactly the records of pages 1..k in page order.
C2_PaginationStopsAtFirstEnd ==
    (\A i \in Indices(requests) : ~PageFailed(requests[i])) =>
        /\ requests = [i \in Indices(requests) |-> i]
        /\ \A i \in 1..(Len(requests) - 1) : ~EndsData(i)
        /\ all_data = RecordsUpTo(Len(requests))
        /\ pc = "fetch" =>
                /\ page = Len(requests) + 1
                /\ \A i \in Indices(requests) : ~EndsData(i)
        /\ pc # "fetch" => requests # <<>> /\ EndsData(Len(requests))

\* pages of 25 and 10 records: 35 records after exactly two requests
C2_Witness ==
    /\ pc # "fetch"
    /\ Len(PageData(1)) = 25 /\ Len(PageData(2)) = 10
    /\ requests = <<1, 2>>
    /\ Len(all_data) = 35
    /\ all_data = PageData(1) \o PageData(2)

\* C3: if the request for page k fails, the run is not ended by it, page k
\* is not requested again and no later page is requested; all_data stays
\* the records of pages 1..k-1 and, when non-empty, goes on to the
\* downstream stages.
C3_FailureKeepsPartialData ==
    \A i \in Indices(requests) :
        PageFailed(requests[i]) =>
            /\ i = Len(requests)
            /\ requests = [j \in Indices(requests) |-> j]
            /\ pc # "fetch"
            /\ all_data = RecordsUpTo(i - 1)
            /\ all_data = <<>> => pc \in {"fetched", "exited"}
            /\ all_data # <<>> =>
                    \/ pc \in {"fetched", "flatten"}
                    \/ stages # <<>> /\ stages[1] = "flatten"
            /\ pc = "crashed" => error # "none" /\ stages # <<>>

C3_Witness ==
    /\ Len(requests) = 2 /\ PageFailed(2)
    /\ Len(all_data) = per_page
    /\ pc = "done"
    /\ csv.written

\* C4: if the pagination loop ends with no record, the run terminates there:
\* no flattening, no classification, no report CSV and no send ever happen.
C4_NoDataEndsRun ==
    (pc # "fetch" /\ all_data = <<>>) =>
        /\ pc \in {"fetched", "exited"}
        /\ stages = <<>>
        /\ merged_data = <<>> /\ alerts_df = <<>> /\ report = <<>>
        /\ csv = NoFile
        /\ mail = "none"

C4_Witness ==
    /\ pc = "exited"
    /\ requests = <<1>>
    /\ PageFailed(1)

\* the number of inventory lines of parent i of all_data (0 when the field
\* is absent or no list)
LinesOf(i) ==
    IF all_data[i].inventories.shape = "list"
    THEN Len(all_data[i].inventories.lines) ELSE 0

RECURSIVE SumTo(_, _)
SumTo(f(_), n) == IF n = 0 THEN 0 ELSE f(n) + SumTo(f, n - 1)

AtLeastOne(i) == IF LinesOf(i) = 0 THEN 1 ELSE LinesOf(i)

\* the flattening has returned
Flattened == pc = "prefilter"

C6_FlattenNeverFails == error # "KeyError: inventories"

\* the classifier has run
Classified == "classify" \in Range(stages)

\* row i of the frame given to the classifier survives the report filters:
\* its alert is URGENT or Warning and its site is the target site
Survives(i) ==
    /\ merged_data[i].site = TargetSite
    /\ \/ merged_data[i].quantity <= merged_data[i].critical_level
       \/ merged_data[i].quantity < merged_data[i].par_level

\* C7: if no row survives the report filters, the run produces no report:
\* the report CSV is never written and the notification is never sent.
C7_EmptyReportNoOutput ==
    (~Classified \/ ~line_cols \/ \A i \in Indices(merged_data) : ~Survives(i)) =>
        /\ csv = NoFile
        /\ mail = "none"
        /\ "csv" \notin Range(stages)
        /\ "send" \notin Range(stages)

\* alerts at another site only: the call is made and returns without output
C7_Witness ==
    /\ pc = "done"
    /\ Classified
    /\ alerts_df # <<>>
    /\ \A i \in Indices(merged_data) : ~Survives(i)
    /\ report = <<>>
    /\ csv = NoFile /\ mail = "none"

\* C8: the report is sorted ascending by quantity and, among rows of equal
\* quantity, a row labelled URGENT comes before a row labelled Warning.
C8_UrgentFirstAtEqualQuantity ==
    \A i, j \in Indices(report) :
        i < j =>
            /\ report[i].quantity <= report[j].quantity
            /\ report[i].quantity = report[j].quantity =>
                    ~(report[i].alert = WARNING /\ report[j].alert = URGENT)

\* C8, amended: the report is sorted ascending by quantity and, among rows
\* of equal quantity, a row labelled Warning comes before a row labelled
\* URGENT (the label is the second key, descending); the CSV holds the rows
\* in that order.
C8_WarningFirstAtEqualQuantity ==
    /\ \A i, j \in Indices(report) :
        i < j =>
            /\ report[i].quantity <= report[j].quantity
            /\ report[i].quantity = report[j].quantity =>
                    ~(report[i].alert = URGENT /\ report[j].alert = WARNING)
    /\ csv.written => csv.rows = report

C8_Witness ==
    /\ csv.written
    /\ Len(report) = 2
    /\ report[1].quantity = report[2].quantity
    /\ report[1].alert = WARNING
    /\ report[2].alert = URGENT

\* C9: when the report is non-empty, the report CSV is written before the
\* send is attempted, and a failed send is not fatal: the run completes
\* normally with the CSV written.
C9_CsvBeforeSendAndSendFailureNonFatal ==
    /\ "send" \in Range(stages) =>
            /\ csv.written /\ csv.rows = report /\ report # <<>>
            /\ \E i, j \in Indices(stages) :
                    i < j /\ stages[i] = "csv" /\ stages[j] = "send"
    /\ mail # "none" => "send" \in Range(stages)
    /\ mail = "failed" => pc = "done" /\ error = "none" /\ csv.written

C9_Witness ==
    /\ mail = "failed"
    /\ pc = "done"
    /\ csv.written /\ csv.rows # <<>>

\* the rows the flattening gave, before the pre-filter
FlatRows == flatten_rows(all_data)

\* the pre-filter has run and the classifier is about to
PreFiltered == pc = "classify" /\ line_cols

\* C10: the pre-filter removes, before classification, exactly the rows
\* where both par_level and critical_level are 0; a row with at least one
\* non-zero threshold reaches the classifier.
C10_RemovesOnlyBothZero ==
    PreFiltered =>
        \A r \in Range(FlatRows) :
            r.type # ProcurementPending =>
                (r \in Range(merged_data)
                    <=> ~(r.par_level = 0 /\ r.critical_level = 0))

\* C10, amended: the pre-filter removes exactly the rows where par_level is
\* 0 or critical_level is 0 and the rows of type "Procurement Pending"; only
\* a row with both thresholds non-zero reaches the classifier.
C10_RemovesEitherZero ==
    PreFiltered =>
        /\ Range(merged_data) \subseteq Range(FlatRows)
        /\ \A r \in Range(FlatRows) :
                r \in Range(merged_data)
                    <=> /\ r.type # ProcurementPending
                        /\ r.par_level # 0
                        /\ r.critical_level # 0

C10_Witness ==
    /\ PreFiltered
    /\ \E r \in Range(FlatRows) :
        /\ r.type # ProcurementPending
        /\ r.par_level # 0 /\ r.critical_level = 0
        /\ r \notin Range(merged_data)
    /\ merged_data # <<>>

====
